---- MODULE Spec2Model ----
(***************************************************************************)
(* The live voice session of src/components/LiveTutor.tsx: the React state *)
(* and refs of the LiveTutor component, the handlers the UI reaches        *)
(* (toggleMic, connectToLive, disconnectVoice), the callbacks handed to    *)
(* ai.live.connect (onopen, onmessage, onclose, onerror) and the           *)
(* environment they run in (audio contexts and their clock, transports,    *)
(* microphone streams).  A handler runs to completion up to its next       *)
(* await; every await that can really suspend is a separate resumption     *)
(* action.                                                                 *)
(***************************************************************************)
EXTENDS Integers, Sequences, FiniteSets, TLC

\* ----------------------------------------------------------------- bounds
MaxText == 2
MaxLog == 3
MaxClock == 2
MaxChunks == 2
MaxTransports == 3
MaxPending == 1
MaxCalls == 2
MaxStreams == 2
MaxCtx == 2
MaxDuration == 1
MaxFrames == 2

\* ------------------------------------------------------------------ texts
\* A text is a sequence of characters; " " stands for any whitespace.
Chars == {"a", " "}
Empty == <<>>
\* The transcription fragments a server message can carry.
Deltas == {<<c>> : c \in Chars}
\* The text of the message onopen puts in the log (id 'start').
StartText == <<"(Conectado)">>

RECURSIVE TrimStart(_)
TrimStart(s) ==
    IF s = Empty THEN Empty
    ELSE IF Head(s) = " " THEN TrimStart(Tail(s)) ELSE s

RECURSIVE TrimEnd(_)
TrimEnd(s) ==
    IF s = Empty THEN Empty
    ELSE IF s[Len(s)] = " " THEN TrimEnd(SubSeq(s, 1, Len(s) - 1)) ELSE s

\* String.prototype.trim
Trim(s) == TrimEnd(TrimStart(s))

\* JavaScript truthiness of a string
Truthy(s) == s # Empty

Max(a, b) == IF a >= b THEN a ELSE b

\* ------------------------------------------------------------------ state
VARIABLES
    \* React state
    isConnected, isMicOn, voiceStatus, voiceError,
    voiceMessages, currentLiveUserText, currentLiveModelText,
    \* refs
    inputAudioContextRef, outputAudioContextRef, nextStartTimeRef, sourcesRef,
    liveSessionRef, scriptProcessorRef, streamRef, isConnectingRef,
    \* environment
    clock,          \* currentTime of the output context the ref holds
    ctxGen,         \* number of audio context pairs created so far
    transports,     \* the transports ai.live.connect has returned
    liveStreams,    \* MediaStreams whose tracks have not been stopped
    liveProcs,      \* ScriptProcessorNodes connected in an open context
    nStreams,       \* MediaStreams acquired so far
    \* suspended handler invocations
    pendingConnect, \* connectToLive at `await ensureAudioContexts()`
    pendingToggle,  \* toggleMic at one of its awaits
    pendingMsg,     \* onmessage at `await decodeAudioData(...)`
    \* history
    played,         \* every source.start call, in call order
    stopped,        \* ids of the sources stop() was called on
    ended,          \* ids of the sources whose 'ended' listener has run
    cutSince,       \* an Interrupted was processed since the last start
    resetAt,        \* clock at the last Interrupted of this context, or -1
    doubleClose,    \* close() was called on an already closed context
    frames,         \* audio frames onaudioprocess produced, and their fate
    discStreak      \* consecutive disconnectVoice calls so far (up to 2)

reactVars == <<isConnected, isMicOn, voiceStatus, voiceError,
               voiceMessages, currentLiveUserText, currentLiveModelText>>
refVars == <<inputAudioContextRef, outputAudioContextRef, nextStartTimeRef,
             sourcesRef, liveSessionRef, scriptProcessorRef, streamRef,
             isConnectingRef>>
envVars == <<clock, ctxGen, transports, liveStreams, liveProcs, nStreams>>
asyncVars == <<pendingConnect, pendingToggle, pendingMsg>>
histVars == <<played, stopped, ended, cutSince, resetAt, doubleClose, frames>>
vars == <<reactVars, refVars, envVars, asyncVars, histVars, discStreak>>

\* React state written by the transcript code
transcriptVars == <<voiceMessages, currentLiveUserText, currentLiveModelText>>

Init ==
    /\ isConnected = FALSE
    /\ isMicOn = FALSE
    /\ voiceStatus = "Pronto para conectar"
    /\ voiceError = "null"
    /\ voiceMessages = <<>>
    /\ currentLiveUserText = Empty
    /\ currentLiveModelText = Empty
    /\ inputAudioContextRef = "null"
    /\ outputAudioContextRef = "null"
    /\ nextStartTimeRef = 0
    /\ sourcesRef = {}
    /\ liveSessionRef = 0
    /\ scriptProcessorRef = 0
    /\ streamRef = 0
    /\ isConnectingRef = FALSE
    /\ clock = 0
    /\ ctxGen = 0
    /\ transports = <<>>
    /\ liveStreams = {}
    /\ liveProcs = {}
    /\ nStreams = 0
    /\ pendingConnect = <<>>
    /\ pendingToggle = <<>>
    /\ pendingMsg = <<>>
    /\ played = <<>>
    /\ stopped = {}
    /\ ended = {}
    /\ cutSince = FALSE
    /\ resetAt = -1
    /\ doubleClose = FALSE
    /\ frames = <<>>
    /\ discStreak = 0

\* Removes element i of a sequence.
RemoveAt(s, i) == SubSeq(s, 1, i - 1) \o SubSeq(s, i + 1, Len(s))

\* ------------------------------------------------------- server messages
\* A LiveServerMessage, reduced to the fields onmessage reads.  audio: 0 is
\* no inline audio, -1 a payload that fails to decode, d > 0 a chunk that
\* decodes to a buffer of duration d.  An empty text is an absent one.
Msgs ==
    [audio : -1 .. MaxDuration,
     inTrans : Deltas \cup {Empty},
     outTrans : Deltas \cup {Empty},
     turnComplete : BOOLEAN,
     interrupted : BOOLEAN]

\* A transport: its state, the currentLiveUserText and currentLiveModelText
\* of the render whose connectToLive created its callbacks, and (history,
\* while it is open) the tutor fragments its onmessage has applied since its
\* last TurnComplete.
NewTransport(capUser, capModel) ==
    [st |-> "connecting", capUser |-> capUser, capModel |-> capModel,
     heardOut |-> Empty]

\* The updater handed to setVoiceMessages at a TurnComplete: the texts it
\* tests and pushes are the ones its closure captured.
CommitTurn(prev, userText, modelText) ==
    LET withUser ==
            IF Truthy(Trim(userText))
            THEN Append(prev, [role |-> "user", text |-> userText])
            ELSE prev
    IN  IF Truthy(Trim(modelText))
        THEN Append(withUser, [role |-> "model", text |-> modelText])
        ELSE withUser

\* Transcribe as it would be with setCurrentLiveUserText(inTrans) and
\* setCurrentLiveModelText(outTrans) at lines 233 and 239: a fragment
\* replaces the accumulator.
TranscribeReplacing(t, m) ==
    LET tr == transports[t]
        user1 == IF Truthy(m.inTrans)
                 THEN m.inTrans ELSE currentLiveUserText
        model1 == IF Truthy(m.outTrans)
                  THEN m.outTrans ELSE currentLiveModelText
        log1 == IF m.turnComplete
                THEN CommitTurn(voiceMessages, tr.capUser, tr.capModel)
                ELSE voiceMessages
    IN  /\ Len(user1) <= MaxText
        /\ Len(model1) <= MaxText
        /\ Len(log1) <= MaxLog
        /\ Len(tr.heardOut \o m.outTrans) <= MaxText
        /\ currentLiveUserText' =
               IF m.turnComplete /\ Truthy(Trim(tr.capUser)) THEN Empty ELSE user1
        /\ currentLiveModelText' =
               IF m.turnComplete /\ Truthy(Trim(tr.capModel)) THEN Empty ELSE model1
        /\ voiceMessages' = log1
        /\ transports' = [transports EXCEPT
               ![t].heardOut = IF m.turnComplete THEN Empty ELSE @ \o m.outTrans]

\* Lines 231-260 of onmessage for message m of transport t.
Transcribe(t, m) ==
    LET tr == transports[t]
        user1 == IF Truthy(m.inTrans)
                 THEN currentLiveUserText \o m.inTrans ELSE currentLiveUserText
        model1 == IF Truthy(m.outTrans)
                  THEN currentLiveModelText \o m.outTrans ELSE currentLiveModelText
        log1 == IF m.turnComplete
                THEN CommitTurn(voiceMessages, tr.capUser, tr.capModel)
                ELSE voiceMessages
    IN  /\ Len(user1) <= MaxText
        /\ Len(model1) <= MaxText
        /\ Len(log1) <= MaxLog
        /\ Len(tr.heardOut \o m.outTrans) <= MaxText
        /\ currentLiveUserText' =
               IF m.turnComplete /\ Truthy(Trim(tr.capUser)) THEN Empty ELSE user1
        /\ currentLiveModelText' =
               IF m.turnComplete /\ Truthy(Trim(tr.capModel)) THEN Empty ELSE model1
        /\ voiceMessages' = log1
        /\ transports' = [transports EXCEPT
               ![t].heardOut = IF m.turnComplete THEN Empty ELSE @ \o m.outTrans]

\* StatusAfter as it would be without line 240: a tutor fragment does not
\* set the status.
StatusWithoutSpeaking(m) ==
    IF m.interrupted THEN "Interrompido"
    ELSE IF m.turnComplete THEN "Sua vez..."
    ELSE voiceStatus

\* The status the handler leaves: the last setVoiceStatus it runs wins.
StatusAfter(m) ==
    IF m.interrupted THEN "Interrompido"
    ELSE IF m.turnComplete THEN "Sua vez..."
    ELSE IF Truthy(m.outTrans) THEN "Falando..."
    ELSE voiceStatus

\* The output context a suspended handler holds is still the ref's one.
Alive(gen) == gen = ctxGen /\ outputAudioContextRef # "null"

\* Interrupt as it would be without line 265: the cursor is kept.
InterruptKeepingCursor(cursor, active) ==
    [cursor |-> cursor, active |-> {}, halted |-> {s.id : s \in active}]

\* Lines 262-265 applied to the scheduler state (cursor, active set).
Interrupt(cursor, active) ==
    [cursor |-> 0, active |-> {}, halted |-> {s.id : s \in active}]

\* Lines 231-267: everything after the audio block, the scheduler being at
\* (cursor, active) when it starts and waiting being the handlers that stay
\* suspended.  History: an Interrupted marks those handlers stale.
Rest(t, m, cursor, active, waiting) ==
    LET cut == Interrupt(cursor, active)
    IN  /\ voiceStatus' = StatusAfter(m)
        /\ Transcribe(t, m)
        /\ IF m.interrupted
           THEN /\ nextStartTimeRef' = cut.cursor
                /\ sourcesRef' = cut.active
                /\ stopped' = stopped \cup cut.halted
                /\ cutSince' = TRUE
                /\ resetAt' = IF outputAudioContextRef # "null" THEN clock ELSE resetAt
                /\ pendingMsg' = [i \in DOMAIN waiting |->
                                     [waiting[i] EXCEPT !.stale = TRUE]]
           ELSE /\ nextStartTimeRef' = cursor
                /\ sourcesRef' = active
                /\ pendingMsg' = waiting
                /\ UNCHANGED <<stopped, resetAt>>

\* decodeAudioData of services/audioUtils, which is not among the sources:
\* as the spec's PCM codec has it, a well-formed chunk decodes to a buffer of
\* the chunk's duration and a malformed one fails.
DecodeAudioData(audio) == [ok |-> audio > 0, duration |-> audio]

\* Chunks that are decoding and will be started.
Decoding == {i \in 1 .. Len(pendingMsg) : DecodeAudioData(pendingMsg[i].m.audio).ok}

\* onmessage, up to its await (line 220) or, without audio to play, whole.
OnMessage(t, m) ==
    /\ t \in 1 .. Len(transports)
    /\ transports[t].st = "open"
    /\ discStreak' = 0
    /\ IF m.audio # 0 /\ outputAudioContextRef # "null"
       THEN /\ Len(pendingMsg) < MaxPending
            /\ m.audio > 0 => Len(played) + Cardinality(Decoding) < MaxChunks
            /\ nextStartTimeRef' = Max(nextStartTimeRef, clock)
            /\ pendingMsg' = Append(pendingMsg,
                   [t |-> t, m |-> m, gen |-> ctxGen, stale |-> FALSE])
            /\ UNCHANGED <<reactVars, inputAudioContextRef, outputAudioContextRef,
                           sourcesRef, liveSessionRef, scriptProcessorRef, streamRef,
                           isConnectingRef, envVars, pendingConnect, pendingToggle,
                           histVars>>
       ELSE /\ Rest(t, m, nextStartTimeRef, sourcesRef, pendingMsg)
            /\ m.interrupted \/ cutSince' = cutSince
            /\ UNCHANGED <<isConnected, isMicOn, voiceError, inputAudioContextRef,
                           outputAudioContextRef, liveSessionRef, scriptProcessorRef,
                           streamRef, isConnectingRef, clock, ctxGen, liveStreams,
                           liveProcs, nStreams, pendingConnect, pendingToggle, played,
                           ended, doubleClose, frames>>

\* What source.start(when) does for the buffer (duration d) of suspended
\* handler p: a start time in the past plays at once.  The record keeps, as
\* history, the cursor (when), the clock (now), the interval played (at,
\* end) and what the scheduler had been through.
Started(id, p, when, d) ==
    LET at == IF Alive(p.gen) THEN Max(when, clock) ELSE when
    IN  [id |-> id, t |-> p.t, gen |-> p.gen, alive |-> Alive(p.gen), when |-> when,
         now |-> clock, at |-> at, end |-> at + d, cut |-> cutSince,
         since |-> IF Alive(p.gen) THEN resetAt ELSE -1, stale |-> p.stale]

\* onmessage resumed with the decoded buffer: lines 221-228, then the rest.
DecodeDone(i) ==
    /\ i \in 1 .. Len(pendingMsg)
    /\ DecodeAudioData(pendingMsg[i].m.audio).ok
    /\ discStreak' = 0
    /\ LET p == pendingMsg[i]
           audioBuffer == DecodeAudioData(p.m.audio)
           src == Started(Len(played) + 1, p, nextStartTimeRef, audioBuffer.duration)
       IN  /\ played' = Append(played, src)
           /\ Rest(p.t, p.m, nextStartTimeRef + audioBuffer.duration,
                   sourcesRef \cup {[id |-> src.id, gen |-> src.gen, end |-> src.end]},
                   RemoveAt(pendingMsg, i))
           /\ p.m.interrupted \/ cutSince' = FALSE
    /\ UNCHANGED <<isConnected, isMicOn, voiceError, inputAudioContextRef,
                   outputAudioContextRef, liveSessionRef, scriptProcessorRef,
                   streamRef, isConnectingRef, clock, ctxGen, liveStreams,
                   liveProcs, nStreams, pendingConnect, pendingToggle, ended,
                   doubleClose, frames>>

\* onmessage resumed by decodeAudioData throwing: the handler's promise
\* rejects and nothing after line 220 runs.
DecodeFailed(i) ==
    /\ i \in 1 .. Len(pendingMsg)
    /\ ~DecodeAudioData(pendingMsg[i].m.audio).ok
    /\ discStreak' = 0
    /\ pendingMsg' = RemoveAt(pendingMsg, i)
    /\ UNCHANGED <<reactVars, refVars, envVars, pendingConnect, pendingToggle, histVars>>

\* A source plays to its end as it would without the listener of line 225:
\* nothing deregisters it.
SourceEndedUnheard(s) ==
    /\ s \in sourcesRef
    /\ Alive(s.gen)
    /\ outputAudioContextRef = "running"
    /\ clock >= s.end
    /\ ended' = ended \cup {s.id}
    /\ discStreak' = 0
    /\ UNCHANGED <<reactVars, refVars, envVars, asyncVars, played, stopped, cutSince,
                   resetAt, doubleClose, frames>>

\* The 'ended' listener of line 225, for a source that played to its end.
SourceEnded(s) ==
    /\ s \in sourcesRef
    /\ Alive(s.gen)
    /\ outputAudioContextRef = "running"
    /\ clock >= s.end
    /\ sourcesRef' = sourcesRef \ {s}
    /\ ended' = ended \cup {s.id}
    /\ discStreak' = 0
    /\ UNCHANGED <<reactVars, inputAudioContextRef, outputAudioContextRef,
                   nextStartTimeRef, liveSessionRef, scriptProcessorRef, streamRef,
                   isConnectingRef, envVars, asyncVars, played, stopped, cutSince,
                   resetAt, doubleClose, frames>>

\* The output audio clock advances while its context runs.
Tick ==
    /\ outputAudioContextRef = "running"
    /\ clock < MaxClock
    /\ clock' = clock + 1
    /\ discStreak' = 0
    /\ UNCHANGED <<reactVars, refVars, ctxGen, transports, liveStreams, liveProcs,
                   nStreams, asyncVars, histVars>>

\* ---------------------------------------------------------- audio contexts
\* The state a new AudioContext reports: the browser decides.
CtxStates == {"suspended", "running"}

\* ensureAudioContexts up to its first await: lines 148-153 create the
\* missing contexts (si, so: the states the new ones report).
Ensured(ref, s) == IF ref = "null" THEN s ELSE ref

\* ensureAudioContexts has a resume() to await (lines 154-159).
MustResume(si, so) ==
    \/ Ensured(inputAudioContextRef, si) = "suspended"
    \/ Ensured(outputAudioContextRef, so) = "suspended"

\* The synchronous part of ensureAudioContexts.  A new output context has
\* its own clock, starting at 0.
EnsureAudioContexts(si, so) ==
    /\ inputAudioContextRef' = Ensured(inputAudioContextRef, si)
    /\ outputAudioContextRef' = Ensured(outputAudioContextRef, so)
    /\ IF outputAudioContextRef = "null"
       THEN /\ ctxGen < MaxCtx
            /\ ctxGen' = ctxGen + 1
            /\ clock' = 0
            /\ resetAt' = -1
       ELSE UNCHANGED <<ctxGen, clock, resetAt>>

\* The awaited resume() calls resolved.
Resumed(ref) == IF ref = "suspended" THEN "running" ELSE ref

\* ------------------------------------------------------------ connectToLive
\* Lines 172-288: the attempt itself.  throws: ai.live.connect throws
\* synchronously.  The callbacks close over the accumulators of the render
\* connectToLive was called in.
Connect(capUser, capModel, throws) ==
    /\ voiceStatus' = "Conectando..."
    /\ IF throws
       THEN /\ voiceError' = "Falha ao iniciar servidor"
            /\ isConnectingRef' = FALSE
            /\ UNCHANGED <<transports, liveSessionRef>>
       ELSE /\ Len(transports) < MaxTransports
            /\ voiceError' = "null"
            /\ isConnectingRef' = TRUE
            /\ transports' = Append(transports, NewTransport(capUser, capModel))
            /\ liveSessionRef' = Len(transports) + 1

\* connectToLive, called from a click: the guard of line 163, then
\* ensureAudioContexts, then (nothing to await) the attempt.
ConnectToLive(si, so, throws) ==
    IF isConnectingRef \/ isConnected
    THEN UNCHANGED <<reactVars, refVars, envVars, asyncVars, histVars>>
    ELSE /\ EnsureAudioContexts(si, so)
         /\ IF MustResume(si, so)
            THEN /\ Len(pendingConnect) < MaxCalls
                 /\ pendingConnect' = Append(pendingConnect,
                        [gen |-> ctxGen', capUser |-> currentLiveUserText,
                         capModel |-> currentLiveModelText])
                 /\ UNCHANGED <<voiceStatus, voiceError, isConnectingRef,
                                transports, liveSessionRef>>
            ELSE /\ Connect(currentLiveUserText, currentLiveModelText, throws)
                 /\ UNCHANGED pendingConnect
         /\ UNCHANGED <<isConnected, isMicOn, transcriptVars, nextStartTimeRef,
                        sourcesRef, scriptProcessorRef, streamRef, liveStreams,
                        liveProcs, nStreams, pendingToggle, pendingMsg, played,
                        stopped, ended, cutSince, doubleClose, frames>>

\* connectToLive resumed from `await ensureAudioContexts()`.  ok: the
\* resume() calls resolved; they reject once their context is closed.
ConnectResumed(i, ok, throws) ==
    /\ i \in 1 .. Len(pendingConnect)
    /\ discStreak' = 0
    /\ pendingConnect' = RemoveAt(pendingConnect, i)
    /\ LET p == pendingConnect[i]
       IN  IF ok
           THEN /\ p.gen = ctxGen
                /\ inputAudioContextRef # "null"
                /\ inputAudioContextRef' = Resumed(inputAudioContextRef)
                /\ outputAudioContextRef' = Resumed(outputAudioContextRef)
                /\ Connect(p.capUser, p.capModel, throws)
           ELSE /\ ~throws
                /\ voiceError' = "Permissao de audio necessaria."
                /\ UNCHANGED <<voiceStatus, isConnectingRef, transports, liveSessionRef,
                               inputAudioContextRef, outputAudioContextRef>>
    /\ UNCHANGED <<isConnected, isMicOn, transcriptVars, nextStartTimeRef, sourcesRef,
                   scriptProcessorRef, streamRef, clock, ctxGen, liveStreams, liveProcs,
                   nStreams, pendingToggle, pendingMsg, histVars>>

\* The session promise of transport t settles: the `.then` callbacks that
\* onaudioprocess queued on it (line 325) run when it is fulfilled, which the
\* model takes to happen as the transport opens, and never when it rejects.
Settled(t, fate) ==
    [k \in DOMAIN frames |->
        IF frames[k].t = t /\ frames[k].fate = "queued"
        THEN [frames[k] EXCEPT !.fate = fate] ELSE frames[k]]

\* ---------------------------------------------------- transport callbacks
\* onopen (lines 202-212)
OnOpen(t) ==
    /\ t \in 1 .. Len(transports)
    /\ transports[t].st = "connecting"
    /\ transports' = [transports EXCEPT ![t].st = "open"]
    /\ isConnected' = TRUE
    /\ voiceStatus' = "Conectado. Pode falar!"
    /\ isConnectingRef' = FALSE
    /\ voiceMessages' = <<[role |-> "model", text |-> StartText]>>
    /\ frames' = Settled(t, "sent")
    /\ discStreak' = 0
    /\ UNCHANGED <<isMicOn, voiceError, currentLiveUserText, currentLiveModelText,
                   inputAudioContextRef, outputAudioContextRef, nextStartTimeRef,
                   sourcesRef, liveSessionRef, scriptProcessorRef, streamRef, clock,
                   ctxGen, liveStreams, liveProcs, nStreams, asyncVars,
                   played, stopped, ended, cutSince, resetAt, doubleClose>>

\* onclose (lines 269-274)
OnClose(t) ==
    /\ t \in 1 .. Len(transports)
    /\ transports[t].st \in {"connecting", "open", "errored"}
    /\ transports' = [transports EXCEPT ![t].st = "closed", ![t].heardOut = Empty]
    /\ isConnected' = FALSE
    /\ voiceStatus' = "Desconectado"
    /\ isMicOn' = FALSE
    /\ isConnectingRef' = FALSE
    /\ discStreak' = 0
    /\ UNCHANGED <<voiceError, transcriptVars, inputAudioContextRef,
                   outputAudioContextRef, nextStartTimeRef, sourcesRef, liveSessionRef,
                   scriptProcessorRef, streamRef, clock, ctxGen, liveStreams, liveProcs,
                   nStreams, asyncVars, histVars>>

\* onerror (lines 275-280)
OnError(t) ==
    /\ t \in 1 .. Len(transports)
    /\ transports[t].st \in {"connecting", "open"}
    /\ transports' = [transports EXCEPT ![t].st = "errored", ![t].heardOut = Empty]
    /\ voiceError' = "Erro na conexao"
    /\ isConnected' = FALSE
    /\ isConnectingRef' = FALSE
    /\ discStreak' = 0
    /\ UNCHANGED <<isMicOn, voiceStatus, transcriptVars, inputAudioContextRef,
                   outputAudioContextRef, nextStartTimeRef, sourcesRef, liveSessionRef,
                   scriptProcessorRef, streamRef, clock, ctxGen, liveStreams, liveProcs,
                   nStreams, asyncVars, histVars>>

\* The session promise rejects: no code of the component runs (line 283
\* stores the promise and nothing awaits or catches it).
ConnectRejected(t) ==
    /\ t \in 1 .. Len(transports)
    /\ transports[t].st = "connecting"
    /\ transports' = [transports EXCEPT ![t].st = "rejected"]
    /\ frames' = Settled(t, "dropped")
    /\ discStreak' = 0
    /\ UNCHANGED <<reactVars, refVars, clock, ctxGen, liveStreams, liveProcs,
                   nStreams, asyncVars, played, stopped, ended, cutSince, resetAt,
                   doubleClose>>

\* ----------------------------------------------------------------- toggleMic
\* Toggle as it would be without line 301: turning the microphone off leaves
\* the tracks of the stream running.
ToggleKeepingTracks(micOn, rest) ==
    IF micOn
    THEN /\ streamRef' = 0
         /\ liveStreams' = liveStreams
         /\ scriptProcessorRef' = 0
         /\ liveProcs' = liveProcs \ {scriptProcessorRef}
         /\ isMicOn' = FALSE
         /\ voiceStatus' = "Microfone pausado"
         /\ pendingToggle' = rest
    ELSE /\ Len(rest) < MaxCalls
         /\ pendingToggle' = Append(rest, [pc |-> "getUserMedia", gen |-> ctxGen',
                                           micOn |-> micOn])
         /\ UNCHANGED <<streamRef, liveStreams, scriptProcessorRef, liveProcs,
                        isMicOn, voiceStatus>>

\* Lines 299-342, for an invocation whose render had isMicOn = micOn; rest
\* is the invocations that stay suspended.  Turning the microphone on
\* suspends at `await getUserMedia` (line 312).
Toggle(micOn, rest) ==
    IF micOn
    THEN /\ streamRef' = 0
         /\ liveStreams' = liveStreams \ {streamRef}
         /\ scriptProcessorRef' = 0
         /\ liveProcs' = liveProcs \ {scriptProcessorRef}
         /\ isMicOn' = FALSE
         /\ voiceStatus' = "Microfone pausado"
         /\ pendingToggle' = rest
    ELSE /\ Len(rest) < MaxCalls
         /\ pendingToggle' = Append(rest, [pc |-> "getUserMedia", gen |-> ctxGen',
                                           micOn |-> micOn])
         /\ UNCHANGED <<streamRef, liveStreams, scriptProcessorRef, liveProcs,
                        isMicOn, voiceStatus>>

\* toggleMic in a render with isConnected true (lines 297-343), up to its
\* first await that suspends.
ToggleConnected(si, so) ==
    /\ EnsureAudioContexts(si, so)
    /\ IF MustResume(si, so)
       THEN /\ Len(pendingToggle) < MaxCalls
            /\ pendingToggle' = Append(pendingToggle,
                   [pc |-> "ensureAudioContexts", gen |-> ctxGen', micOn |-> isMicOn])
            /\ UNCHANGED <<streamRef, liveStreams, scriptProcessorRef, liveProcs,
                           isMicOn, voiceStatus>>
       ELSE Toggle(isMicOn, pendingToggle)
    /\ UNCHANGED <<isConnected, voiceError, transcriptVars, nextStartTimeRef, sourcesRef,
                   liveSessionRef, isConnectingRef, transports, nStreams,
                   pendingConnect, pendingMsg, played, stopped, ended, cutSince,
                   doubleClose,
                   frames>>

\* toggleMic, the click handler of the avatar and of the main button.
ToggleMic(si, so, throws) ==
    /\ discStreak' = 0
    /\ IF ~isConnected
       THEN ConnectToLive(si, so, throws)
       ELSE ~throws /\ ToggleConnected(si, so)

\* toggleMic resumed from `await ensureAudioContexts()` (line 297).  A
\* rejection is not caught: the invocation ends there.
ToggleResumed(i, ok) ==
    /\ i \in 1 .. Len(pendingToggle)
    /\ pendingToggle[i].pc = "ensureAudioContexts"
    /\ discStreak' = 0
    /\ LET p == pendingToggle[i]
       IN  IF ok
           THEN /\ p.gen = ctxGen
                /\ inputAudioContextRef # "null"
                /\ inputAudioContextRef' = Resumed(inputAudioContextRef)
                /\ outputAudioContextRef' = Resumed(outputAudioContextRef)
                /\ ctxGen' = ctxGen
                /\ Toggle(p.micOn, RemoveAt(pendingToggle, i))
           ELSE /\ pendingToggle' = RemoveAt(pendingToggle, i)
                /\ UNCHANGED <<inputAudioContextRef, outputAudioContextRef, ctxGen,
                               streamRef, liveStreams, scriptProcessorRef, liveProcs,
                               isMicOn, voiceStatus>>
    /\ UNCHANGED <<isConnected, voiceError, transcriptVars, nextStartTimeRef, sourcesRef,
                   liveSessionRef, isConnectingRef, clock, transports, nStreams,
                   pendingConnect, pendingMsg, histVars>>

\* toggleMic resumed with the MediaStream (lines 313-337).
MicGranted(i) ==
    /\ i \in 1 .. Len(pendingToggle)
    /\ pendingToggle[i].pc = "getUserMedia"
    /\ nStreams < MaxStreams
    /\ discStreak' = 0
    /\ pendingToggle' = RemoveAt(pendingToggle, i)
    /\ nStreams' = nStreams + 1
    /\ streamRef' = nStreams + 1
    /\ liveStreams' = liveStreams \cup {nStreams + 1}
    /\ IF inputAudioContextRef = "null"
       THEN UNCHANGED <<scriptProcessorRef, liveProcs, isMicOn, voiceStatus>>
       ELSE /\ scriptProcessorRef' = nStreams + 1
            /\ liveProcs' = liveProcs \cup {nStreams + 1}
            /\ isMicOn' = TRUE
            /\ voiceStatus' = "Ouvindo..."
    /\ UNCHANGED <<isConnected, voiceError, transcriptVars, inputAudioContextRef,
                   outputAudioContextRef, nextStartTimeRef, sourcesRef, liveSessionRef,
                   isConnectingRef, clock, ctxGen, transports, pendingConnect,
                   pendingMsg, histVars>>

\* The catch block of lines 338-341 as it would be if it only logged.
MicDeniedUnreported(i) ==
    /\ i \in 1 .. Len(pendingToggle)
    /\ pendingToggle[i].pc = "getUserMedia"
    /\ discStreak' = 0
    /\ pendingToggle' = RemoveAt(pendingToggle, i)
    /\ UNCHANGED <<reactVars, refVars, envVars, pendingConnect, pendingMsg, histVars>>

\* toggleMic resumed by getUserMedia rejecting (lines 338-341).
MicDenied(i) ==
    /\ i \in 1 .. Len(pendingToggle)
    /\ pendingToggle[i].pc = "getUserMedia"
    /\ discStreak' = 0
    /\ pendingToggle' = RemoveAt(pendingToggle, i)
    /\ voiceError' = "Sem acesso ao microfone"
    /\ UNCHANGED <<isConnected, isMicOn, voiceStatus, transcriptVars, refVars, envVars,
                   pendingConnect, pendingMsg, histVars>>

\* What line 324-329 does with a frame while liveSessionRef holds the
\* promise of a transport in state st: sent through an open session, queued
\* on a pending promise, lost on a closed, errored or rejected one.
FrameFate(st) ==
    IF st = "open" THEN "sent"
    ELSE IF st = "connecting" THEN "queued"
    ELSE "dropped"

\* onaudioprocess (lines 320-331) of processor p, fed by stream p.
AudioProcess(p) ==
    /\ p \in liveProcs
    /\ p \in liveStreams
    /\ Len(frames) < MaxFrames
    /\ frames' = Append(frames,
           IF liveSessionRef = 0
           THEN [t |-> 0, at |-> "none", fate |-> "dropped"]
           ELSE [t |-> liveSessionRef, at |-> transports[liveSessionRef].st,
                 fate |-> FrameFate(transports[liveSessionRef].st)])
    /\ discStreak' = 0
    /\ UNCHANGED <<reactVars, refVars, envVars, asyncVars, played, stopped, ended,
                   cutSince,
                   resetAt, doubleClose>>

\* ----------------------------------------------------------- disconnectVoice
\* close() as it would be without lines 349-350: the ref keeps the closed
\* context.
CloseAndKeep(ref) == IF ref = "null" THEN "null" ELSE "closed"

\* Lines 347-350 for one context ref: close() if set, then null.
CloseAndClear(ref) == "null"

\* disconnectVoice (lines 345-356), reached through switchMode('chat').
DisconnectVoice ==
    /\ liveStreams' = liveStreams \ {streamRef}
    /\ liveProcs' = IF inputAudioContextRef = "null" THEN liveProcs ELSE {}
    /\ doubleClose' = (doubleClose \/ inputAudioContextRef = "closed"
                                   \/ outputAudioContextRef = "closed")
    /\ inputAudioContextRef' = CloseAndClear(inputAudioContextRef)
    /\ outputAudioContextRef' = CloseAndClear(outputAudioContextRef)
    /\ isConnected' = FALSE
    /\ isMicOn' = FALSE
    /\ voiceMessages' = <<>>
    /\ currentLiveUserText' = Empty
    /\ currentLiveModelText' = Empty
    /\ discStreak' = IF discStreak < 2 THEN discStreak + 1 ELSE 2
    /\ UNCHANGED <<voiceStatus, voiceError, nextStartTimeRef, sourcesRef,
                   liveSessionRef, scriptProcessorRef, streamRef, isConnectingRef,
                   clock, ctxGen, transports, nStreams, asyncVars,
                   played, stopped, ended, cutSince, resetAt, frames>>

\* ------------------------------------------------------------ specification
Next ==
    \/ \E si, so \in CtxStates, throws \in BOOLEAN : ToggleMic(si, so, throws)
    \/ \E i \in 1 .. MaxCalls, ok, throws \in BOOLEAN : ConnectResumed(i, ok, throws)
    \/ \E i \in 1 .. MaxCalls, ok \in BOOLEAN : ToggleResumed(i, ok)
    \/ \E i \in 1 .. MaxCalls : MicGranted(i)
    \/ \E i \in 1 .. MaxCalls : MicDenied(i)
    \/ DisconnectVoice
    \/ \E t \in 1 .. MaxTransports : OnOpen(t)
    \/ \E t \in 1 .. MaxTransports, m \in Msgs : OnMessage(t, m)
    \/ \E i \in 1 .. MaxPending : DecodeDone(i)
    \/ \E i \in 1 .. MaxPending : DecodeFailed(i)
    \/ \E s \in sourcesRef : SourceEnded(s)
    \/ Tick
    \/ \E t \in 1 .. MaxTransports : OnClose(t)
    \/ \E t \in 1 .. MaxTransports : OnError(t)
    \/ \E t \in 1 .. MaxTransports : ConnectRejected(t)
    \/ \E p \in liveProcs : AudioProcess(p)

\* Every handler, callback and environment step, with every input.
Spec == Init /\ [][Next]_vars

\* A click on the button while the render shows the session disconnected,
\* the audio contexts starting in the running state.
ClickConnect == ~isConnected /\ ToggleMic("running", "running", FALSE)

\* The transcript: a server that sends text only (a fragment of either
\* speaker, TurnComplete with or without a last tutor fragment) on the
\* transport liveSessionRef holds, over connections that open, close, are
\* left and are reopened.
TextMsgs ==
    {m \in Msgs : /\ m.audio = 0 /\ ~m.interrupted
                  /\ m.inTrans \in {Empty, <<"a">>}
                  /\ (m.inTrans = Empty) # (m.outTrans = Empty /\ ~m.turnComplete)}

NextTranscript ==
    \/ ClickConnect
    \/ DisconnectVoice
    \/ \E t \in 1 .. MaxTransports : OnOpen(t)
    \/ \E m \in TextMsgs : OnMessage(liveSessionRef, m)
    \/ OnClose(liveSessionRef)

SpecTranscript == Init /\ [][NextTranscript]_vars

\* Playback: a server that sends audio only (chunks, Interrupted), while the
\* output clock runs.
AudioMsgs ==
    {m \in Msgs : /\ m.inTrans = Empty /\ m.outTrans = Empty /\ ~m.turnComplete
                  /\ (m.audio > 0 \/ (m.audio = 0 /\ m.interrupted))}

NextPlayback ==
    \/ ClickConnect
    \/ \E t \in 1 .. MaxTransports : OnOpen(t)
    \/ \E t \in 1 .. MaxTransports, m \in AudioMsgs : OnMessage(t, m)
    \/ \E i \in 1 .. MaxPending : DecodeDone(i)
    \/ \E s \in sourcesRef : SourceEnded(s)
    \/ Tick

SpecPlayback == Init /\ [][NextPlayback]_vars

\* Connecting: clicks while disconnected, with audio contexts that may have
\* to be resumed, and everything a connection attempt can end in.
NextConnect ==
    \/ \E si, so \in CtxStates, throws \in BOOLEAN :
           ~isConnected /\ ToggleMic(si, so, throws)
    \/ \E i \in 1 .. MaxCalls, ok, throws \in BOOLEAN : ConnectResumed(i, ok, throws)
    \/ DisconnectVoice
    \/ \E t \in 1 .. MaxTransports : OnOpen(t)
    \/ \E t \in 1 .. MaxTransports : OnClose(t)
    \/ \E t \in 1 .. MaxTransports : OnError(t)
    \/ \E t \in 1 .. MaxTransports : ConnectRejected(t)

SpecConnect == Init /\ [][NextConnect]_vars

\* Teardown: a session that connects, turns the microphone on and off,
\* hears the tutor speak (on the transport liveSessionRef holds), and is
\* disconnected at any moment.
SpokenMsgs ==
    {m \in Msgs : /\ m.audio = 0 /\ m.inTrans = Empty /\ m.outTrans = <<"a">>
                  /\ ~m.turnComplete /\ ~m.interrupted}

NextTeardown ==
    \/ ToggleMic("running", "running", FALSE)
    \/ \E i \in 1 .. MaxCalls : MicGranted(i)
    \/ DisconnectVoice
    \/ \E t \in 1 .. MaxTransports : OnOpen(t)
    \/ \E m \in SpokenMsgs : OnMessage(liveSessionRef, m)

SpecTeardown == Init /\ [][NextTeardown]_vars

\* The microphone: a session that connects, asks for the microphone (granted
\* or denied, one request overlapping another), loses the transport
\* liveSessionRef holds and is left.
NextMic ==
    \/ ToggleMic("running", "running", FALSE)
    \/ \E i \in 1 .. MaxCalls : MicGranted(i)
    \/ \E i \in 1 .. MaxCalls : MicDenied(i)
    \/ DisconnectVoice
    \/ \E t \in 1 .. MaxTransports : OnOpen(t)
    \/ OnClose(liveSessionRef)
    \/ OnError(liveSessionRef)

SpecMic == Init /\ [][NextMic]_vars

\* Inbound events: a server that sends the tutor's speech (an audio chunk,
\* well-formed or not, with its transcription fragment) and TurnComplete.
InboundMsgs ==
    {m \in Msgs : /\ m.inTrans = Empty /\ ~m.interrupted
                  /\ \/ m.audio # 0 /\ m.outTrans = <<"a">> /\ ~m.turnComplete
                     \/ m.audio = 0 /\ m.outTrans = Empty /\ m.turnComplete}

NextInbound ==
    \/ ClickConnect
    \/ \E t \in 1 .. MaxTransports : OnOpen(t)
    \/ \E t \in 1 .. MaxTransports, m \in InboundMsgs : OnMessage(t, m)
    \/ \E i \in 1 .. MaxPending : DecodeDone(i)
    \/ \E i \in 1 .. MaxPending : DecodeFailed(i)
    \/ Tick

SpecInbound == Init /\ [][NextInbound]_vars

\* Capture: a session with the microphone on whose transport closes and
\* which is connected again, while the processor keeps producing frames.
NextCapture ==
    \/ ToggleMic("running", "running", FALSE)
    \/ \E i \in 1 .. MaxCalls : MicGranted(i)
    \/ \E t \in 1 .. MaxTransports : OnOpen(t)
    \/ \E t \in 1 .. MaxTransports : OnClose(t)
    \/ \E t \in 1 .. MaxTransports : ConnectRejected(t)
    \/ \E p \in liveProcs : AudioProcess(p)

SpecCapture == Init /\ [][NextCapture]_vars

\* Reconnecting: a session that plays chunks, is left by disconnectVoice and
\* is connected again, the server sending chunks on the transport
\* liveSessionRef holds.
ChunkMsgs ==
    {m \in Msgs : /\ m.audio > 0 /\ m.inTrans = Empty /\ m.outTrans = Empty
                  /\ ~m.turnComplete /\ ~m.interrupted}

NextReconnect ==
    \/ ClickConnect
    \/ DisconnectVoice
    \/ \E t \in 1 .. MaxTransports : OnOpen(t)
    \/ \E m \in ChunkMsgs : OnMessage(liveSessionRef, m)
    \/ \E i \in 1 .. MaxPending : DecodeDone(i)
    \/ Tick

SpecReconnect == Init /\ [][NextReconnect]_vars

\* Failures: clicks on audio contexts that may have to be resumed, the
\* Desconectar button, and every way in which resuming, connecting, the
\* microphone request and the transport can fail.
NextFailures ==
    \/ \E si, so \in CtxStates, throws \in BOOLEAN : ToggleMic(si, so, throws)
    \/ \E i \in 1 .. MaxCalls, ok, throws \in BOOLEAN : ConnectResumed(i, ok, throws)
    \/ \E i \in 1 .. MaxCalls, ok \in BOOLEAN : ToggleResumed(i, ok)
    \/ \E i \in 1 .. MaxCalls : MicDenied(i)
    \/ DisconnectVoice
    \/ \E t \in 1 .. MaxTransports : OnOpen(t)
    \/ OnError(liveSessionRef)
    \/ \E t \in 1 .. MaxTransports : ConnectRejected(t)

SpecFailures == Init /\ [][NextFailures]_vars

\* Turns: one connection, the microphone toggled on and off, and a server
\* that sends, without audio, every combination of a fragment of either
\* speaker, TurnComplete and Interrupted.
TurnMsgs ==
    {m \in Msgs : /\ m.audio = 0
                  /\ m.inTrans \in {Empty, <<"a">>}
                  /\ m.outTrans \in {Empty, <<"a">>}}

NextTurns ==
    \/ ToggleMic("running", "running", FALSE)
    \/ \E i \in 1 .. MaxCalls : MicGranted(i)
    \/ \E t \in 1 .. MaxTransports : OnOpen(t)
    \/ \E m \in TurnMsgs : OnMessage(liveSessionRef, m)

SpecTurns == Init /\ [][NextTurns]_vars

\* Retrying the microphone: clicks that never overlap another toggleMic
\* call, requests that are granted or denied, and a transport that closes
\* and is connected again.
ClickAlone == pendingToggle = <<>> /\ ToggleMic("running", "running", FALSE)

NextRetry ==
    \/ ClickAlone
    \/ \E i \in 1 .. MaxCalls : MicGranted(i)
    \/ \E i \in 1 .. MaxCalls : MicDenied(i)
    \/ \E t \in 1 .. MaxTransports : OnOpen(t)
    \/ OnClose(liveSessionRef)

SpecRetry == Init /\ [][NextRetry]_vars

\* ------------------------------------------------------------------ claims
\* The step in which onmessage runs lines 231-267 for message m of transport
\* t: at once when it has no audio to decode, else when the decode is done.
Handles(t, m) ==
    \/ /\ ~(m.audio # 0 /\ outputAudioContextRef # "null")
       /\ OnMessage(t, m)
    \/ \E i \in 1 .. Len(pendingMsg) :
           /\ pendingMsg[i].t = t
           /\ pendingMsg[i].m = m
           /\ DecodeDone(i)

\* The accumulators as a handler of message m sees them at its TurnComplete.
UserTextAt(m) == currentLiveUserText \o m.inTrans
ModelTextAt(m) == currentLiveModelText \o m.outTrans

\* What a step appended to the log, when the log before is a prefix of it.
Gained == SubSeq(voiceMessages', Len(voiceMessages) + 1, Len(voiceMessages'))
Appends ==
    /\ Len(voiceMessages') >= Len(voiceMessages)
    /\ SubSeq(voiceMessages', 1, Len(voiceMessages)) = voiceMessages
IsTutor(e) == e.role = "model"

\* C1: when a TurnComplete is processed on an open connection after tutor
\* fragments (with text other than whitespace) were applied since the
\* connection's previous TurnComplete, and the tutor accumulator holds those
\* fragments and nothing else, the step appends to the log exactly one tutor
\* Message, and its text is those fragments concatenated in arrival order.
C1_TutorTurnCommitted ==
    [][\A t \in 1 .. Len(transports), m \in Msgs :
          (m.turnComplete /\ Handles(t, m)
           /\ Truthy(Trim(transports[t].heardOut \o m.outTrans))
           /\ ModelTextAt(m) = transports[t].heardOut \o m.outTrans)
          => /\ Appends
             /\ SelectSeq(Gained, IsTutor)
                    = <<[role |-> "model", text |-> transports[t].heardOut \o m.outTrans]>>
      ]_vars

\* C2: when a TurnComplete is processed while both accumulators hold text
\* other than whitespace, the step appends exactly two Messages, the user's
\* and then the tutor's.
C2_UserBeforeTutor ==
    [][\A t \in 1 .. Len(transports), m \in Msgs :
          (m.turnComplete /\ Handles(t, m)
           /\ Truthy(Trim(UserTextAt(m))) /\ Truthy(Trim(ModelTextAt(m))))
          => /\ Appends
             /\ Len(Gained) = 2
             /\ Gained[1].role = "user"
             /\ Gained[2].role = "model"
      ]_vars

\* C3: a TurnComplete leaves empty every accumulator that held text other
\* than whitespace when it was processed.
C3_AccumulatorsCleared ==
    [][\A t \in 1 .. Len(transports), m \in Msgs :
          (m.turnComplete /\ Handles(t, m))
          => /\ Truthy(Trim(UserTextAt(m))) => currentLiveUserText' = Empty
             /\ Truthy(Trim(ModelTextAt(m))) => currentLiveModelText' = Empty
      ]_vars

\* C4: a TurnComplete appends as many Messages as there are accumulators
\* holding text other than whitespace when it is processed (none for an
\* empty or whitespace-only accumulator).
NonBlank(s) == IF Truthy(Trim(s)) THEN 1 ELSE 0

C4_OneMessagePerAccumulator ==
    [][\A t \in 1 .. Len(transports), m \in Msgs :
          (m.turnComplete /\ Handles(t, m))
          => /\ Appends
             /\ Len(Gained) = NonBlank(UserTextAt(m)) + NonBlank(ModelTextAt(m))
      ]_vars


\* Consecutive starts of chunks of one connection in one output context,
\* with no Interrupted processed between them.
Successive(a, b) ==
    /\ a.t = b.t
    /\ a.gen = b.gen
    /\ a.alive
    /\ b.alive
    /\ ~b.cut

\* C5: for two successive chunks of a connection with no Interrupted between
\* them, the cursor does not decrease, the second is played no earlier than
\* the first ends (no overlap) and, when the clock has not passed that end
\* when it is started, exactly at that end (no gap).
C5_BackToBack ==
    \A i \in 1 .. Len(played) - 1 :
        LET a == played[i]
            b == played[i + 1]
        IN  Successive(a, b)
            => /\ b.when >= a.when
               /\ b.at >= a.end
               /\ b.now <= a.end => b.at = a.end

\* The messages that carry Interrupted.
Interruptions == {m \in Msgs : m.interrupted}

\* C6: every step either stops every source of the active set, leaves the set
\* empty and leaves the cursor at or before the clock, or is not the
\* processing of an Interrupted; and a chunk started after an Interrupted was
\* processed, in the same output context, is played at or after the clock
\* time of that reset.
C6_InterruptResets ==
    [][/\ \/ /\ sourcesRef' = {}
             /\ {s.id : s \in sourcesRef} \subseteq stopped'
             /\ outputAudioContextRef # "null" => nextStartTimeRef' <= clock'
          \/ \A t \in 1 .. Len(transports), m \in Interruptions : ~Handles(t, m)
       /\ Len(played') > Len(played)
              => LET b == played'[Len(played')]
                 IN  (b.alive /\ b.since >= 0) => b.at >= b.since
      ]_vars

\* An Interrupted cut off playing sources, and a chunk was started after it.
C6_Witness ==
    /\ stopped # {}
    /\ \E i \in 1 .. Len(played) :
           played[i].alive /\ played[i].since >= 0 /\ played[i].id \notin stopped

\* C7: no chunk is started by a handler that was suspended on its decode
\* while an Interrupted was processed.
C7_NoStartAfterInterrupt ==
    \A i \in 1 .. Len(played) : ~played[i].stale

\* The transports that ai.live.connect opened and that are connecting or
\* open.
LiveTransports ==
    {t \in 1 .. Len(transports) : transports[t].st \in {"connecting", "open"}}

\* C8: in every reachable state at most one transport is connecting or open:
\* a connect issued during an attempt or an open session opens no second one.
C8_OneTransport == Cardinality(LiveTransports) <= 1

\* C9: once disconnectVoice has returned, no capture stream and no processor
\* is live, and the transport held in liveSessionRef is closed.
C9_Released ==
    discStreak >= 1
        => /\ liveStreams = {}
           /\ liveProcs = {}
           /\ liveSessionRef # 0 => transports[liveSessionRef].st = "closed"

\* C10: disconnectVoice called again right after disconnectVoice closes no
\* audio context (and no transport) a second time and changes nothing of the
\* session's state.
C10_Idempotent ==
    [][(discStreak >= 1 /\ DisconnectVoice)
           => /\ ~doubleClose'
              /\ UNCHANGED <<reactVars, refVars, envVars, asyncVars>>
      ]_vars

\* A second disconnectVoice in a row, of a session that had been connected
\* with the microphone on.
C10_Witness ==
    /\ discStreak = 2
    /\ liveSessionRef # 0
    /\ streamRef # 0
    /\ scriptProcessorRef # 0

\* C11: when getUserMedia is denied to a toggleMic invoked in a connected
\* session with the microphone off and no capture stream or processor, the
\* session stays connected with the microphone off, voiceError becomes the
\* microphone-access error, and no stream or processor is created.
C11_MicDenied ==
    [][\A i \in 1 .. Len(pendingToggle) :
          (/\ isConnected /\ ~isMicOn
           /\ streamRef = 0 /\ scriptProcessorRef = 0
           /\ MicDenied(i))
          => /\ isConnected' /\ ~isMicOn'
             /\ voiceError' = "Sem acesso ao microfone"
             /\ streamRef' = 0 /\ scriptProcessorRef' = 0
             /\ UNCHANGED <<liveStreams, liveProcs, nStreams>>
      ]_vars

\* The microphone was denied in a connected session with the microphone off.
C11_Witness ==
    /\ isConnected /\ ~isMicOn
    /\ voiceError = "Sem acesso ao microfone"
    /\ streamRef = 0 /\ nStreams = 0
    /\ pendingToggle = <<>>

\* C12: messages of a connection take effect in delivery order: when the
\* effects of a message on the scheduler, the accumulators, the log and the
\* status are applied (lines 221-267), no message delivered before it on the
\* same connection is still waiting to be applied.
C12_DeliveryOrder ==
    [][/\ \A t \in 1 .. Len(transports), m \in Msgs :
              (~(m.audio # 0 /\ outputAudioContextRef # "null") /\ OnMessage(t, m))
              => \A j \in 1 .. Len(pendingMsg) : pendingMsg[j].t # t
       /\ \A i \in 1 .. Len(pendingMsg) :
              DecodeDone(i)
              => \A j \in 1 .. i - 1 : pendingMsg[j].t # pendingMsg[i].t
      ]_vars

\* C13: a frame the capture callback produced while the transport was not
\* open is dropped: it is neither waiting to be sent nor sent later.
C13_DroppedUnlessOpen ==
    \A k \in 1 .. Len(frames) :
        frames[k].at # "open" => frames[k].fate = "dropped"

\* The capture streams that are live with their processor attached.
Capturing == liveStreams \cap liveProcs

\* C14: at most one capture stream (a MediaStream with its processor) is live
\* at any time.
C14_OneCapture == Cardinality(Capturing) <= 1

\* C15: every step other than disconnectVoice keeps the log it found as a
\* prefix of the log it leaves.
C15_AppendOnly == [][DisconnectVoice \/ Appends]_vars

\* The first chunk started for its connection.
FirstOfConnection(i) == \A j \in 1 .. i - 1 : played[j].t # played[i].t

\* C16: the first chunk of a connection, started in the output context the
\* ref holds, is played from the clock time at which it is started: no
\* cursor value of an earlier connection delays it.
C16_CursorResetOnReconnect ==
    \A i \in 1 .. Len(played) :
        (FirstOfConnection(i) /\ played[i].alive) => played[i].at = played[i].now

\* C17: between handlers the session never rests in the interrupted state:
\* the status is not left at 'Interrompido'.
C17_InterruptTransient == voiceStatus # "Interrompido"

\* C18: onclose or onerror of the session's transport, in a connected
\* session, leaves the session disconnected, the microphone off and its
\* capture released, and no connection attempt marked in progress.
C18_ClosedIsDisconnected ==
    [][(/\ isConnected
        /\ liveSessionRef # 0
        /\ OnClose(liveSessionRef) \/ OnError(liveSessionRef))
       => /\ ~isConnected'
          /\ ~isMicOn'
          /\ liveStreams' = {}
          /\ liveProcs' = {}
          /\ ~isConnectingRef'
      ]_vars

\* C19: the in-progress flag is set only while an attempt is in progress:
\* once every attempt has failed, opened or closed, isConnectingRef is
\* false, so that connectToLive starts a new attempt.
C19_FreshConnectPermitted ==
    isConnectingRef => \E t \in 1 .. Len(transports) : transports[t].st = "connecting"

\* C20: the status is 'Ouvindo...' only in a connected session with the
\* microphone on and 'Falando...' only in a connected session.
C20_StatusFollowsState ==
    /\ voiceStatus = "Ouvindo..." => (isConnected /\ isMicOn)
    /\ voiceStatus = "Falando..." => isConnected

\* C21: when the decode of a message's audio fails, the session stays
\* connected, the cursor and the active set are unchanged, and what the
\* message carries besides the audio is applied: its fragments are appended
\* to the accumulators and its TurnComplete or Interrupted sets the status.
C21_MalformedAudioOnly ==
    [][\A i \in 1 .. Len(pendingMsg) :
          DecodeFailed(i)
          => LET m == pendingMsg[i].m
             IN  /\ UNCHANGED <<isConnected, nextStartTimeRef, sourcesRef>>
                 /\ Truthy(m.inTrans)
                        => currentLiveUserText' = currentLiveUserText \o m.inTrans
                 /\ Truthy(m.outTrans)
                        => currentLiveModelText' = currentLiveModelText \o m.outTrans
                 /\ voiceStatus' = StatusAfter(m)
      ]_vars

\* The step in which a failure's handling ends: audio contexts that cannot
\* be resumed (in connectToLive, in toggleMic), a connection attempt that
\* throws or whose promise rejects, a denied microphone, a transport error.
Failure ==
    \/ \E i \in 1 .. Len(pendingConnect) : ConnectResumed(i, FALSE, FALSE)
    \/ \E i \in 1 .. Len(pendingToggle) : ToggleResumed(i, FALSE)
    \/ \E i \in 1 .. Len(pendingConnect) : ConnectResumed(i, TRUE, TRUE)
    \/ \E t \in 1 .. Len(transports) : ConnectRejected(t)
    \/ \E i \in 1 .. Len(pendingToggle) : MicDenied(i)
    \/ \E t \in 1 .. Len(transports) : OnError(t)

\* The session state the UI derives its view from.
SessionState == <<isConnected, isMicOn, voiceStatus>>

\* C22: every failure leaves a changed session state or a user-visible
\* error.
C22_NoSilentFailure ==
    [][Failure => (voiceError' # "null" \/ SessionState' # SessionState)]_vars

\* C23: disconnectVoice leaves the log and both accumulators empty, and no
\* other step discards an entry of the log.
C23_ClearedOnlyOnDisconnect ==
    [][IF DisconnectVoice
       THEN /\ voiceMessages' = <<>>
            /\ currentLiveUserText' = Empty
            /\ currentLiveModelText' = Empty
       ELSE Appends]_vars

\* C24: every chunk that was started on a live context was started with a
\* time that is not before the audio clock at that moment.
C24_NotInThePast ==
    \A i \in 1 .. Len(played) : played[i].alive => played[i].when >= played[i].now

\* The messages that carry a tutor fragment and neither TurnComplete nor
\* Interrupted, and those that carry TurnComplete and no Interrupted.
OutputDeltas == {m \in Msgs : Truthy(m.outTrans) /\ ~m.turnComplete /\ ~m.interrupted}
TurnCompletes == {m \in Msgs : m.turnComplete /\ ~m.interrupted}

\* C25: in a connected session, the step that processes a message with a
\* tutor fragment (and neither TurnComplete nor Interrupted) leaves the status
\* 'Falando...', and the step that processes a TurnComplete while the status
\* is 'Falando...' leaves the session connected with the status 'Sua vez...'.
C25_SpeakingUntilTurnComplete ==
    [][\/ ~isConnected
       \/ /\ \/ voiceStatus' = "Falando..." /\ isConnected'
             \/ \A t \in 1 .. Len(transports), m \in OutputDeltas : ~Handles(t, m)
          /\ \/ voiceStatus # "Falando..."
             \/ voiceStatus' = "Sua vez..." /\ isConnected'
             \/ \A t \in 1 .. Len(transports), m \in TurnCompletes : ~Handles(t, m)
      ]_vars

\* The session is in Speaking with the microphone on: the tutor fragment
\* arrived while the session was listening.
C25_Witness == isConnected /\ isMicOn /\ voiceStatus = "Falando..."

\* The messages that carry no TurnComplete.
WithoutTurnComplete == {m \in Msgs : ~m.turnComplete}

\* C26: the step that processes a message without TurnComplete leaves each
\* accumulator as it found it followed by the message's fragment for that
\* speaker (as it found it when the message has none), and leaves the log as
\* it found it.
C26_DeltasAccumulate ==
    [][\A t \in 1 .. Len(transports), m \in WithoutTurnComplete :
           Handles(t, m)
           => /\ currentLiveUserText' = UserTextAt(m)
              /\ currentLiveModelText' = ModelTextAt(m)
              /\ voiceMessages' = voiceMessages
      ]_vars

\* Two fragments of each speaker were applied, the log holding nothing but
\* the entry of onopen.
C26_Witness ==
    /\ Len(currentLiveUserText) = 2
    /\ Len(currentLiveModelText) = 2
    /\ Len(voiceMessages) = 1

\* What the microphone owns: the flag, the two refs and the live devices.
CaptureState == <<isMicOn, streamRef, scriptProcessorRef, liveStreams, liveProcs>>

\* A click on the microphone button of a connected session while no other
\* toggleMic call is in progress.
ClickMic ==
    /\ isConnected
    /\ pendingToggle = <<>>
    /\ ToggleMic("running", "running", FALSE)

\* The microphone request of the only toggleMic call in progress is granted,
\* in the connected session the call was made in.
OnlyCallGranted ==
    /\ isConnected
    /\ Len(pendingToggle) = 1
    /\ pendingToggle[1].gen = ctxGen
    /\ inputAudioContextRef # "null"
    /\ MicGranted(1)

\* C27: in a connected session with no other toggleMic call in progress, a
\* click with the microphone off changes nothing of the capture state until
\* its request is granted, and the grant adds exactly one stream with its
\* processor, held by the two refs, and sets isMicOn with the status
\* 'Ouvindo...'; a click with the microphone on stops the stream the ref
\* holds, disconnects the processor, nulls both refs and clears isMicOn,
\* which takes back what the grant added.
C27_MicAlternates ==
    [][/\ (ClickMic /\ ~isMicOn) => UNCHANGED CaptureState
       /\ (OnlyCallGranted /\ ~isMicOn)
              => /\ isMicOn' /\ voiceStatus' = "Ouvindo..."
                 /\ streamRef' \notin liveStreams
                 /\ scriptProcessorRef' = streamRef'
                 /\ liveStreams' = liveStreams \cup {streamRef'}
                 /\ liveProcs' = liveProcs \cup {scriptProcessorRef'}
       /\ (ClickMic /\ isMicOn)
              => /\ ~isMicOn'
                 /\ streamRef' = 0 /\ scriptProcessorRef' = 0
                 /\ liveStreams' = liveStreams \ {streamRef}
                 /\ liveProcs' = liveProcs \ {scriptProcessorRef}
      ]_vars

\* The microphone of a connected session was turned on, without a denial,
\* and off again: nothing is live and the refs are null.
C27_Witness ==
    /\ isConnected /\ ~isMicOn /\ voiceStatus = "Microfone pausado"
    /\ voiceError = "null" /\ pendingToggle = <<>>
    /\ nStreams = 1 /\ Capturing = {} /\ liveStreams = {}
    /\ streamRef = 0 /\ scriptProcessorRef = 0

\* The sources source.start was called on.
StartedIds == {played[i].id : i \in 1 .. Len(played)}

\* C28: the active set holds exactly the sources that were started and have
\* neither played to their end nor been stopped by an Interrupted.
C28_ActiveSetExact ==
    {s.id : s \in sourcesRef} = StartedIds \ (ended \cup stopped)

\* One source has played to its end and another is in the active set.
C28_Witness == ended # {} /\ sourcesRef # {}

\* A callback of a connection (onopen, or onmessage of the transport the
\* ref holds) runs right after disconnectVoice, before any other click.
LateCallback ==
    /\ discStreak >= 1
    /\ \/ \E t \in 1 .. Len(transports) : OnOpen(t)
       \/ \E m \in Msgs : OnMessage(liveSessionRef, m)

\* C29: a callback of the previous connection that runs after disconnectVoice
\* leaves isConnected, the log, both accumulators and the status as they
\* were.
C29_LateCallbacksIgnored ==
    [][\/ UNCHANGED <<isConnected, voiceStatus, transcriptVars>>
       \/ ~LateCallback]_vars

\* C30: isMicOn is true exactly when a stream with its processor is live.
C30_FlagMatchesDevice == isMicOn <=> Capturing # {}

\* C31: when the microphone request of a toggleMic call is granted in a
\* connected session that shows the microphone-access error of an earlier
\* call, the step leaves isMicOn true, the status 'Ouvindo...' and no error.
C31_MicErrorRecoverable ==
    [][(/\ voiceError = "Sem acesso ao microfone"
        /\ OnlyCallGranted)
       => /\ isMicOn'
          /\ voiceStatus' = "Ouvindo..."
          /\ voiceError' = "null"
      ]_vars

====
